---- MODULE Spec2Model ----
(***************************************************************************)
(* Group ledger of the accountability app: the Postgres tables groups,     *)
(* group_members and transactions, the RPC functions log_failure (three-   *)
(* argument version), settle_debt and join_group_by_code, and the client   *)
(* operations createGroup and leaveGroup of the useGroups hook.            *)
(*                                                                         *)
(* Money is counted in thousandths of a currency unit (mills), so that the *)
(* DECIMAL(10,2) variables of log_failure round as they do in Postgres.    *)
(*                                                                         *)
(* Spec     the calls of the app, one after the other                      *)
(* ApiSpec  Spec and what else a signed-in client reaches: the two-        *)
(*          parameter log_failure, the earlier leaveGroup, direct updates  *)
(*          of group_members under its row-level policies                  *)
(* ConcSpec two RPC calls running statement by statement, READ COMMITTED   *)
(* GoalSpec the useGoals hook of one device: completions, fetchGoals and   *)
(*          getGoalStatus, with time in hours and the device's time zone   *)
(* NetSpec  get_net_balance over memberships in two groups                 *)
(* JoinSpec     join_group_by_code statement by statement, two sessions    *)
(* SubCentSpec  Spec and groups created with a penalty below half a cent   *)
(* ConcJoinSpec ConcSpec and joins that commit between its statements      *)
(* LeaveSpec    Spec and leaveGroup as its two separate requests           *)
(* GoalRpcSpec  GoalSpec and the database function check_goal_status       *)
(***************************************************************************)
EXTENDS Integers, Sequences, FiniteSets, TLC

\* ------------------------------------------------------------------ bounds
NumUsers == 3
MaxTime == 5

Users == 1..NumUsers
\* one group: every statement of the RPC functions filters on one group_id
GroupIds == {1}
\* two database sessions, one RPC call each: a call and the call racing it
Sessions == {1, 2}
\* transaction ids a settle_debt call may name
MaxTx == NumUsers + 1
TxIds == 1..MaxTx
\* invite codes handed to join_group_by_code: code g is group g's, 0 matches none
InviteCodes == {0} \cup GroupIds
\* penaltyAmount arguments of createGroup, in mills (0: omitted or 0)
PenaltyInputs == {0, 5}

\* balances a client writes into group_members directly, in mills
BalanceInputs == {0, 10}

\* the clock of the goal hooks runs in hours, up to MaxHours
MaxHours == 96
\* ids of the rows of goal_completions
CompletionIds == {1, 2, 3}
\* the users who complete the goal: the one signed in on the device and another
GoalUsers == {1, 2}
\* the groups a user's net balance runs over
NetGroupIds == {1, 2}
\* balances of a membership when get_net_balance is called, in mills
NetBalanceInputs == {0 - 3000, 5000}
\* frequency_days of the goal
FrequencyInputs == {1, 3}
\* the clock moves by a day and a half or by two days
TickHours == {36, 48}

\* ------------------------------------------------------- program constants
DefaultPenalty == 1000
MillsPerCent == 10
HoursPerDay == 24

VARIABLES
    db,     \* the committed rows of groups, group_members and transactions
    now,    \* the clock: it advances when a call starts
    ret,    \* what the last finished call handed to its caller
    rt,     \* the last log_failure call: balances before it, transactions it created
    sess,   \* the database sessions running an RPC call statement by statement
    hist,   \* the calls that committed, in commit order
    goals,  \* the useGoals hook of the device: the goals fetchGoals loaded
    tz      \* the time zone of the device getGoalStatus runs on

vars == <<db, now, ret, rt, sess, hist, goals, tz>>

NULL == [null |-> TRUE]

\* ----------------------------------------------------------------- helpers
RECURSIVE SetToSeq(_)
SetToSeq(S) ==
    IF S = {} THEN <<>>
    ELSE LET m == CHOOSE x \in S : \A y \in S : x <= y
         IN <<m>> \o SetToSeq(S \ {m})

\* Assignment of a numeric to a DECIMAL(10,2) variable: rounds to two
\* decimals, half away from zero.
ToDecimal2(x) ==
    IF x >= 0
    THEN ((x + (MillsPerCent \div 2)) \div MillsPerCent) * MillsPerCent
    ELSE 0 - (((0 - x) + (MillsPerCent \div 2)) \div MillsPerCent) * MillsPerCent

\* row of group_members as inserted with the column defaults
NewMember == [current_balance |-> 0, failure_count |-> 0]

EmptyDb == [groups |-> <<>>, group_members |-> <<>>, transactions |-> <<>>,
            goals |-> <<>>, goal_completions |-> <<>>]

NoCall == [op |-> "none"]

\* the useGoals hook before any fetchGoals
NoGoals == <<>>

\* a device whose local time is UTC all year
FixedZone == [at |-> 0, before |-> 0, after |-> 0]

MemberUsers(gm, g) == {u \in Users : <<g, u>> \in DOMAIN gm}

\* ------------------------------------------------- log_failure, statements
\* FOR v_member IN SELECT user_id FROM group_members
\*   WHERE group_id = p_group_id AND user_id != v_user_id
OtherMembers(gm, g, u) == SetToSeq(MemberUsers(gm, g) \ {u})

\* the rows the loop inserts, one per recipient
NewTransactions(g, u, recips, v_penalty) ==
    [i \in 1..Len(recips) |->
        [group_id |-> g, from_user_id |-> u, to_user_id |-> recips[i],
         amount |-> v_penalty, status |-> "pending", settled_at |-> 0]]

\* mutant: the caller is charged one penalty, whatever the number of recipients
LoopTotalDebtOnce(n, v_penalty) == v_penalty

\* v_total_debt := v_total_debt + v_penalty, once per iteration
RECURSIVE LoopTotalDebt(_, _)
LoopTotalDebt(n, v_penalty) ==
    IF n = 0 THEN 0 ELSE ToDecimal2(LoopTotalDebt(n - 1, v_penalty) + v_penalty)

\* mutant: the failure is not counted when nobody else is in the group
UpdateFailureCountIfOthers(gm, g, u) ==
    [k \in DOMAIN gm |->
        IF k = <<g, u>> /\ MemberUsers(gm, g) # {u}
        THEN [gm[k] EXCEPT !.failure_count = @ + 1]
        ELSE gm[k]]

\* UPDATE group_members SET failure_count = failure_count + 1
\*   WHERE group_id = p_group_id AND user_id = v_user_id
UpdateFailureCount(gm, g, u) ==
    [k \in DOMAIN gm |->
        IF k = <<g, u>>
        THEN [gm[k] EXCEPT !.failure_count = @ + 1]
        ELSE gm[k]]

\* mutant: the caller's balance is set from the debt of this call alone
UpdateActorBalanceOverwrite(gm, g, u, v_total_debt) ==
    [k \in DOMAIN gm |->
        IF k = <<g, u>>
        THEN [gm[k] EXCEPT !.current_balance = 0 - v_total_debt]
        ELSE gm[k]]

\* UPDATE group_members SET current_balance = current_balance - v_total_debt
\*   WHERE group_id = p_group_id AND user_id = v_user_id
UpdateActorBalance(gm, g, u, v_total_debt) ==
    [k \in DOMAIN gm |->
        IF k = <<g, u>>
        THEN [gm[k] EXCEPT !.current_balance = @ - v_total_debt]
        ELSE gm[k]]

\* mutant: the WHERE clause lacks user_id != v_user_id
UpdateEveryBalance(gm, g, u, v_penalty) ==
    [k \in DOMAIN gm |->
        IF k[1] = g
        THEN [gm[k] EXCEPT !.current_balance = @ + v_penalty]
        ELSE gm[k]]

\* UPDATE group_members SET current_balance = current_balance + v_penalty
\*   WHERE group_id = p_group_id AND user_id != v_user_id
UpdateOthersBalance(gm, g, u, v_penalty) ==
    [k \in DOMAIN gm |->
        IF k[1] = g /\ k[2] # u
        THEN [gm[k] EXCEPT !.current_balance = @ + v_penalty]
        ELSE gm[k]]

\* log_failure(p_group_id, p_description, p_proof_photo_url) run by user u
\* alone, from its first statement to its RETURN
LogFailure(d, u, g) ==
    IF g \notin DOMAIN d.groups
    THEN [db |-> d, ret |-> [op |-> "log_failure", user |-> u, group_id |-> g,
                             status |-> "exception", error |-> "Group not found"]]
    ELSE
      LET v_penalty == ToDecimal2(d.groups[g].default_penalty_amount)
          recips == OtherMembers(d.group_members, g, u)
          v_tx_count == Len(recips)
          v_total_debt == LoopTotalDebt(Len(recips), v_penalty)
          gm1 == UpdateFailureCount(d.group_members, g, u)
          gm2 == UpdateActorBalance(gm1, g, u, v_total_debt)
          gm3 == UpdateOthersBalance(gm2, g, u, v_penalty)
      IN [db |-> [d EXCEPT !.group_members = gm3,
                           !.transactions = @ \o NewTransactions(g, u, recips, v_penalty)],
          ret |-> [op |-> "log_failure", user |-> u, group_id |-> g,
                   status |-> "returned", success |-> TRUE,
                   transactions_created |-> v_tx_count,
                   total_debt |-> v_total_debt]]

\* ------------------------------------------------- settle_debt, statements
\* SELECT * INTO v_tx FROM transactions WHERE id = p_transaction_id
SelectTx(txs, t) == IF t \in DOMAIN txs THEN txs[t] ELSE NULL

\* mutant: no already-paid guard
NeverPaid(v_tx) == FALSE

\* IF v_tx.status = 'paid' THEN RETURN ... 'Already paid'
\* (v_tx.status is NULL when no row was found, and the IF is not taken)
AlreadyPaid(v_tx) == v_tx # NULL /\ v_tx.status = "paid"

\* UPDATE transactions SET status = 'paid', settled_at = now() WHERE id = ...
MarkPaid(txs, t, at) ==
    [i \in DOMAIN txs |->
        IF i = t THEN [txs[i] EXCEPT !.status = "paid", !.settled_at = at]
        ELSE txs[i]]

\* UPDATE group_members SET current_balance = current_balance + v_tx.amount
\*   WHERE group_id = v_tx.group_id AND user_id = v_tx.from_user_id
CreditFrom(gm, v_tx) ==
    [k \in DOMAIN gm |->
        IF v_tx # NULL /\ k = <<v_tx.group_id, v_tx.from_user_id>>
        THEN [gm[k] EXCEPT !.current_balance = @ + v_tx.amount]
        ELSE gm[k]]

\* mutant: the creditor's balance is left as it was
DebitToSkipped(gm, v_tx) == gm

\* UPDATE group_members SET current_balance = current_balance - v_tx.amount
\*   WHERE group_id = v_tx.group_id AND user_id = v_tx.to_user_id
DebitTo(gm, v_tx) ==
    [k \in DOMAIN gm |->
        IF v_tx # NULL /\ k = <<v_tx.group_id, v_tx.to_user_id>>
        THEN [gm[k] EXCEPT !.current_balance = @ - v_tx.amount]
        ELSE gm[k]]

\* settle_debt(p_transaction_id) run alone at time `at`
SettleDebt(d, t, at) ==
    LET v_tx == SelectTx(d.transactions, t)
    IN IF AlreadyPaid(v_tx)
       THEN [db |-> d, ret |-> [op |-> "settle_debt", tx |-> t, status |-> "returned",
                                success |-> FALSE, error |-> "Already paid"]]
       ELSE [db |-> [d EXCEPT !.transactions = MarkPaid(@, t, at),
                              !.group_members = DebitTo(CreditFrom(@, v_tx), v_tx)],
             ret |-> [op |-> "settle_debt", tx |-> t, status |-> "returned",
                      success |-> TRUE]]

\* ------------------------------------------------------ join_group_by_code
JoinGroupByCode(d, u, code) ==
    IF code \notin DOMAIN d.groups
    THEN [db |-> d, ret |-> [op |-> "join_group_by_code",
                             status |-> "returned", success |-> FALSE,
                             error |-> "Invalid invite code"]]
    ELSE IF <<code, u>> \in DOMAIN d.group_members
    THEN [db |-> d, ret |-> [op |-> "join_group_by_code",
                             status |-> "returned", success |-> FALSE,
                             error |-> "Already a member"]]
    ELSE [db |-> [d EXCEPT !.group_members = (<<code, u>> :> NewMember) @@ @],
          ret |-> [op |-> "join_group_by_code",
                   status |-> "returned", success |-> TRUE, group_id |-> code]]

\* ------------------------------------------------- useGroups: createGroup
CreateGroupRow(u, penaltyAmount) ==
    [default_penalty_amount |-> IF penaltyAmount = 0 THEN DefaultPenalty ELSE penaltyAmount,
     created_by |-> u]

CreateGroupCall(d, u, penaltyAmount) ==
    LET g == Len(d.groups) + 1
    IN [db |-> [d EXCEPT !.groups = Append(@, CreateGroupRow(u, penaltyAmount)),
                         !.group_members = (<<g, u>> :> NewMember) @@ @],
        ret |-> [op |-> "createGroup", status |-> "returned", group_id |-> g]]

\* -------------------------------------------------- useGroups: leaveGroup
\* if (memberData && memberData.current_balance !== 0) throw
HasUnsettledBalance(memberData) == memberData.current_balance # 0

DeleteMember(gm, g, u) == [k \in DOMAIN gm \ {<<g, u>>} |-> gm[k]]

LeaveGroupCall(d, u, g) ==
    IF <<g, u>> \notin DOMAIN d.group_members
    THEN [db |-> d, ret |-> [op |-> "leaveGroup",
                             status |-> "exception", error |-> "no row"]]
    ELSE IF HasUnsettledBalance(d.group_members[<<g, u>>])
    THEN [db |-> d, ret |-> [op |-> "leaveGroup",
                             status |-> "exception", error |-> "unsettled balance"]]
    ELSE [db |-> [d EXCEPT !.group_members = DeleteMember(@, g, u)],
          ret |-> [op |-> "leaveGroup",
                   status |-> "returned"]]

\* ------------------------------ log_failure(p_group_id, p_description)
\* The two-parameter function of full_setup.sql, which the three-parameter
\* one does not replace: v_penalty is numeric and is not rounded.
\* UPDATE group_members SET failure_count = failure_count + 1,
\*   current_balance = current_balance - v_penalty WHERE ... user_id = v_user_id
UpdateFailureCountAndBalance(gm, g, u, v_penalty) ==
    [k \in DOMAIN gm |->
        IF k = <<g, u>>
        THEN [gm[k] EXCEPT !.failure_count = @ + 1,
                           !.current_balance = @ - v_penalty]
        ELSE gm[k]]

\* inside the loop: UPDATE group_members SET current_balance =
\*   current_balance + v_penalty WHERE ... user_id = v_member.user_id
RECURSIVE UpdateRecipientBalances(_, _, _, _)
UpdateRecipientBalances(gm, g, recips, v_penalty) ==
    IF recips = <<>> THEN gm
    ELSE UpdateRecipientBalances(
             [gm EXCEPT ![<<g, Head(recips)>>].current_balance = @ + v_penalty],
             g, Tail(recips), v_penalty)

LogFailure2(d, u, g) ==
    IF g \notin DOMAIN d.groups
    THEN \* v_penalty is NULL: a row written with it breaks NOT NULL
         IF MemberUsers(d.group_members, g) # {}
         THEN [db |-> d, ret |-> [op |-> "log_failure", params |-> 2, user |-> u,
                                  group_id |-> g, status |-> "exception",
                                  error |-> "not-null violation"]]
         ELSE [db |-> d, ret |-> [op |-> "log_failure", params |-> 2, user |-> u,
                                  group_id |-> g, status |-> "returned",
                                  success |-> TRUE, transactions_created |-> 0,
                                  total_debt |-> NULL]]
    ELSE
      LET v_penalty == d.groups[g].default_penalty_amount
          recips == OtherMembers(d.group_members, g, u)
          gm1 == UpdateFailureCountAndBalance(d.group_members, g, u, v_penalty)
          gm2 == UpdateRecipientBalances(gm1, g, recips, v_penalty)
      IN [db |-> [d EXCEPT !.group_members = gm2,
                           !.transactions = @ \o NewTransactions(g, u, recips, v_penalty)],
          ret |-> [op |-> "log_failure", params |-> 2, user |-> u, group_id |-> g,
                   status |-> "returned", success |-> TRUE,
                   transactions_created |-> Len(recips),
                   total_debt |-> v_penalty * Len(recips)]]

\* ------------------------------- useGroups: leaveGroup, the earlier file
\* delete from group_members where group_id = groupId and user_id = user.id
LeaveGroupCallEarlier(d, u, g) ==
    [db |-> [d EXCEPT !.group_members = DeleteMember(@, g, u)],
     ret |-> [op |-> "leaveGroup", status |-> "returned"]]

\* ------------------------------------ row-level policies, group_members
\* get_my_group_ids(): the groups the caller is a member of
get_my_group_ids(gm, u) == {g \in GroupIds : <<g, u>> \in DOMAIN gm}

\* "Members can view other members in the same group.": FOR SELECT
GroupMembersSelectPolicy(gm, u, k) == k[1] \in get_my_group_ids(gm, u)

\* "group_members_update": FOR UPDATE TO authenticated USING (true)
GroupMembersUpdatePolicy(gm, u, k) == TRUE

\* from('group_members').update({ current_balance }) by user u, filtered
\* to row k: the rows the caller may see and may update are written
UpdateGroupMember(d, u, k, balance) ==
    IF /\ k \in DOMAIN d.group_members
       /\ GroupMembersSelectPolicy(d.group_members, u, k)
       /\ GroupMembersUpdatePolicy(d.group_members, u, k)
    THEN [db |-> [d EXCEPT !.group_members[k].current_balance = balance],
          ret |-> [op |-> "update", table |-> "group_members",
                   status |-> "returned", rows |-> 1]]
    ELSE [db |-> d, ret |-> [op |-> "update", table |-> "group_members",
                             status |-> "returned", rows |-> 0]]

\* --------------------------------------------- one call after the other
\* rt remembers the last log_failure call that returned: the balances before
\* it and the transactions it created, for as long as only those
\* transactions are settled afterwards.
NoProbe == [on |-> FALSE]

\* a session that runs no call: nothing read, nothing written, no lock held
Idle == [pc |-> "idle", op |-> "none", user |-> 0, group_id |-> 0, tx |-> 0,
         at |-> 0, v_penalty |-> 0, v_tx_count |-> 0, v_total_debt |-> 0,
         v_tx |-> NULL, applied |-> FALSE,
         ins |-> <<>>, gmw |-> <<>>, txw |-> <<>>, todo |-> <<>>]

Init ==
    /\ db = EmptyDb
    /\ now = 0
    /\ ret = NoCall
    /\ rt = NoProbe
    /\ sess = [s \in Sessions |-> Idle]
    /\ hist = <<>>
    /\ goals = NoGoals
    /\ tz = FixedZone

createGroup(u, penaltyAmount) ==
    /\ now < MaxTime
    /\ Len(db.groups) < Cardinality(GroupIds)
    /\ LET r == CreateGroupCall(db, u, penaltyAmount)
       IN db' = r.db /\ ret' = r.ret
    /\ now' = now + 1
    /\ rt' = NoProbe
    /\ UNCHANGED <<sess, hist, goals, tz>>

join_group_by_code(u, code) ==
    /\ now < MaxTime
    /\ LET r == JoinGroupByCode(db, u, code)
       IN db' = r.db /\ ret' = r.ret
    /\ now' = now + 1
    /\ rt' = NoProbe
    /\ UNCHANGED <<sess, hist, goals, tz>>

log_failure(u, g) ==
    /\ now < MaxTime
    /\ LET r == LogFailure(db, u, g)
       IN /\ Len(r.db.transactions) <= MaxTx
          /\ db' = r.db
          /\ ret' = r.ret
          /\ rt' = IF r.ret.status = "returned"
                   THEN [on |-> TRUE, pre |-> db.group_members,
                         txs |-> (Len(db.transactions) + 1)..Len(r.db.transactions)]
                   ELSE NoProbe
    /\ now' = now + 1
    /\ UNCHANGED <<sess, hist, goals, tz>>

settle_debt(t) ==
    /\ now < MaxTime
    /\ LET r == SettleDebt(db, t, now + 1)
       IN db' = r.db /\ ret' = r.ret
    /\ now' = now + 1
    /\ rt' = IF rt.on /\ t \in rt.txs THEN rt ELSE NoProbe
    /\ UNCHANGED <<sess, hist, goals, tz>>

leaveGroup(u, g) ==
    /\ now < MaxTime
    /\ LET r == LeaveGroupCall(db, u, g)
       IN db' = r.db /\ ret' = r.ret
    /\ now' = now + 1
    /\ rt' = NoProbe
    /\ UNCHANGED <<sess, hist, goals, tz>>

Next ==
    \/ \E u \in Users, p \in PenaltyInputs : createGroup(u, p)
    \/ \E u \in Users, c \in InviteCodes : join_group_by_code(u, c)
    \/ \E u \in Users, g \in GroupIds : log_failure(u, g)
    \/ \E t \in TxIds : settle_debt(t)
    \/ \E u \in Users, g \in GroupIds : leaveGroup(u, g)

Spec == Init /\ [][Next]_vars

\* --------------------------------------------- every call a client has
\* Besides the calls of Next, a signed-in client reaches the two-parameter
\* log_failure, the leaveGroup of the earlier useGroups file, and the
\* group_members table itself, as far as its row-level policies admit.
log_failure2(u, g) ==
    /\ now < MaxTime
    /\ LET r == LogFailure2(db, u, g)
       IN /\ Len(r.db.transactions) <= MaxTx
          /\ db' = r.db
          /\ ret' = r.ret
    /\ now' = now + 1
    /\ rt' = NoProbe
    /\ UNCHANGED <<sess, hist, goals, tz>>

leaveGroupEarlier(u, g) ==
    /\ now < MaxTime
    /\ LET r == LeaveGroupCallEarlier(db, u, g)
       IN db' = r.db /\ ret' = r.ret
    /\ now' = now + 1
    /\ rt' = NoProbe
    /\ UNCHANGED <<sess, hist, goals, tz>>

update_group_members(u, k, balance) ==
    /\ now < MaxTime
    /\ LET r == UpdateGroupMember(db, u, k, balance)
       IN db' = r.db /\ ret' = r.ret
    /\ now' = now + 1
    /\ rt' = NoProbe
    /\ UNCHANGED <<sess, hist, goals, tz>>

ApiNext ==
    \/ Next
    \/ \E u \in Users, g \in GroupIds : log_failure2(u, g)
    \/ \E u \in Users, g \in GroupIds : leaveGroupEarlier(u, g)
    \/ \E u \in Users, k \in GroupIds \X Users, b \in BalanceInputs :
          update_group_members(u, k, b)

ApiSpec == Init /\ [][ApiNext]_vars

\* ====================================================== properties, Spec
Balance(gm, g, u) == gm[<<g, u>>].current_balance
Failures(gm, g, u) == gm[<<g, u>>].failure_count

RECURSIVE SumBalances(_, _)
SumBalances(gm, S) ==
    IF S = {} THEN 0
    ELSE LET k == CHOOSE x \in S : TRUE
         IN gm[k].current_balance + SumBalances(gm, S \ {k})

GroupRows(gm, g) == {k \in DOMAIN gm : k[1] = g}

\* the rows a call appended to transactions
Created == SubSeq(db'.transactions, Len(db.transactions) + 1, Len(db'.transactions))

\* C1 (as claimed): in every state reached by createGroup, join_group_by_code,
\* log_failure, settle_debt and leaveGroup calls, the balances of each
\* group's memberships sum to 0.
ZeroSum ==
    \A g \in DOMAIN db.groups :
        SumBalances(db.group_members, GroupRows(db.group_members, g)) = 0

\* What C2 says of a log_failure call by member u of group g, for a penalty
\* amount P: one pending transaction u -> r of amount P per other member r,
\* u debited P*n and one failure more, each other member credited P, and
\* transactions_created = n, total_debt = P*n returned.
Distributes(u, g, P) ==
    LET gm == db.group_members
        others == MemberUsers(gm, g) \ {u}
        n == Cardinality(others)
    IN /\ ret'.status = "returned" /\ ret'.success
       /\ ret'.transactions_created = n
       /\ ret'.total_debt = P * n
       /\ Len(Created) = n
       /\ SubSeq(db'.transactions, 1, Len(db.transactions)) = db.transactions
       /\ \A r \in others :
            Cardinality({i \in 1..n : Created[i].to_user_id = r}) = 1
       /\ \A i \in 1..n :
            /\ Created[i].group_id = g
            /\ Created[i].from_user_id = u
            /\ Created[i].to_user_id \in others
            /\ Created[i].amount = P
            /\ Created[i].status = "pending"
       /\ DOMAIN db'.group_members = DOMAIN gm
       /\ Balance(db'.group_members, g, u) = Balance(gm, g, u) - P * n
       /\ Failures(db'.group_members, g, u) = Failures(gm, g, u) + 1
       /\ \A r \in others :
            /\ Balance(db'.group_members, g, r) = Balance(gm, g, r) + P
            /\ Failures(db'.group_members, g, r) = Failures(gm, g, r)

MemberCall(u, g) ==
    /\ log_failure(u, g)
    /\ g \in DOMAIN db.groups
    /\ <<g, u>> \in DOMAIN db.group_members

SettlementEffect ==
    [][\A t \in TxIds :
        (/\ settle_debt(t)
         /\ t \in DOMAIN db.transactions
         /\ db.transactions[t].status = "pending")
        => LET tx == db.transactions[t]
               gm == db.group_members
           IN /\ db'.transactions =
                    [db.transactions EXCEPT ![t] =
                        [tx EXCEPT !.status = "paid", !.settled_at = now']]
              /\ DOMAIN db'.group_members = DOMAIN gm
              /\ \A k \in DOMAIN gm :
                    /\ db'.group_members[k].failure_count = gm[k].failure_count
                    /\ db'.group_members[k].current_balance =
                          gm[k].current_balance
                          + (IF k = <<tx.group_id, tx.from_user_id>> THEN tx.amount ELSE 0)
                          - (IF k = <<tx.group_id, tx.to_user_id>> THEN tx.amount ELSE 0)
              /\ db'.groups = db.groups
              /\ ret'.success]_vars

\* a settle_debt call has just paid a transaction between two members
SettlementWitness ==
    /\ ret.op = "settle_debt" /\ ret.success
    /\ ret.tx \in DOMAIN db.transactions
    /\ db.transactions[ret.tx].status = "paid"
    /\ db.transactions[ret.tx].settled_at = now
    /\ db.transactions[ret.tx].amount > 0
    /\ <<1, db.transactions[ret.tx].from_user_id>> \in DOMAIN db.group_members
    /\ <<1, db.transactions[ret.tx].to_user_id>> \in DOMAIN db.group_members

AllSettled(ids) == \A t \in ids : db.transactions[t].status = "paid"

SecondSettlementChangesNothing ==
    [][\A t \in TxIds :
        (/\ settle_debt(t)
         /\ t \in DOMAIN db.transactions
         /\ db.transactions[t].status = "paid")
        => /\ db' = db
           /\ ~ret'.success]_vars

\* a settle_debt call was answered 'Already paid'
SecondSettlementWitness ==
    /\ ret.op = "settle_debt" /\ ~ret.success
    /\ ret.error = "Already paid"
    /\ db.transactions[ret.tx].status = "paid"
    /\ db.transactions[ret.tx].settled_at < now

NonMemberRejected ==
    [][\A u \in Users, g \in GroupIds :
        (/\ log_failure(u, g)
         /\ g \in DOMAIN db.groups
         /\ <<g, u>> \notin DOMAIN db.group_members)
        => /\ ret'.status = "exception"
           /\ db' = db]_vars

\* =================================== the RPC calls, statement by statement
\* Every RPC call runs in one database transaction at READ COMMITTED: each
\* statement reads the rows committed when it runs and the session's own
\* writes; an UPDATE locks the rows it writes until the transaction ends and
\* waits for a row another session has locked, then works on the row as
\* committed; the writes become visible together at COMMIT and are dropped
\* together when the call fails.

\* a call that has just started: nothing read, nothing written
Started == Idle

InFlight(s) == sess[s].pc # "idle"

\* group_members as session s reads it: the committed rows, and its own
\* versions of the rows it has updated
ViewMembers(s) ==
    [k \in DOMAIN db.group_members |->
        IF k \in DOMAIN sess[s].gmw THEN sess[s].gmw[k] ELSE db.group_members[k]]

ViewTransactions(s) ==
    [i \in DOMAIN db.transactions |->
        IF i \in DOMAIN sess[s].txw THEN sess[s].txw[i] ELSE db.transactions[i]]

\* mutant: an UPDATE does not wait for the row and writes over it
NoRowLock(s, k) == FALSE

\* the row lock an UPDATE needs is held by another session
MemberRowLocked(s, k) == \E o \in Sessions \ {s} : k \in DOMAIN sess[o].gmw

TxRowLocked(s, t) == \E o \in Sessions \ {s} : t \in DOMAIN sess[o].txw

\* session s writes, and locks, the rows T of group_members with the values
\* the statement gave them in newgm
WriteMembers(s, newgm, T) ==
    [k \in DOMAIN sess[s].gmw \cup T |-> IF k \in T THEN newgm[k] ELSE sess[s].gmw[k]]

\* the orders in which a scan may meet the rows of S
Orders(S) ==
    {q \in [1..Cardinality(S) -> S] : \A i, j \in 1..Cardinality(S) : q[i] = q[j] => i = j}

\* the committed tables once session s commits
AfterCommit(s) ==
    [db EXCEPT !.group_members = ViewMembers(s),
               !.transactions = ViewTransactions(s) \o sess[s].ins]

\* mutant: a failed call's writes stay
AfterRollbackKeepsWrites(s) == AfterCommit(s)

\* the committed tables once session s is rolled back
AfterRollback(s) == db

\* the row(s) the next statement of session s has to lock
NeedsMember(s) ==
    LET c == sess[s]
    IN CASE c.pc \in {"update_failure_count", "update_actor_balance"} ->
                {<<c.group_id, c.user>>} \cap DOMAIN db.group_members
         [] c.pc = "update_others_balance" ->
                {Head(c.todo)} \cap DOMAIN db.group_members
         [] c.pc = "credit_from" /\ c.v_tx # NULL ->
                {<<c.v_tx.group_id, c.v_tx.from_user_id>>} \cap DOMAIN db.group_members
         [] c.pc = "debit_to" /\ c.v_tx # NULL ->
                {<<c.v_tx.group_id, c.v_tx.to_user_id>>} \cap DOMAIN db.group_members
         [] OTHER -> {}

NeedsTx(s) ==
    IF sess[s].pc = "mark_paid" THEN {sess[s].tx} \cap DOMAIN db.transactions ELSE {}

\* session s waits for a lock that session o holds
WaitsFor(s, o) ==
    /\ o # s
    /\ \/ \E k \in NeedsMember(s) : k \in DOMAIN sess[o].gmw
       \/ \E t \in NeedsTx(s) : t \in DOMAIN sess[o].txw

RECURSIVE WaitsForChain(_, _, _)
WaitsForChain(s, o, n) ==
    \/ WaitsFor(s, o)
    \/ n > 0 /\ \E m \in Sessions : WaitsFor(s, m) /\ WaitsForChain(m, o, n - 1)

\* the deadlock detector finds session s in a cycle of waiting sessions
Deadlocked(s) == WaitsForChain(s, s, Cardinality(Sessions))

\* what a committed call did, as the committing session knows it
HistEntry(s) ==
    LET c == sess[s]
    IN [op |-> c.op, user |-> c.user, group_id |-> c.group_id, tx |-> c.tx,
        at |-> c.at, v_penalty |-> c.v_penalty, v_tx_count |-> c.v_tx_count,
        v_total_debt |-> c.v_total_debt, v_tx |-> c.v_tx, applied |-> c.applied,
        overlapped |-> \E o \in Sessions \ {s} : InFlight(o)]

\* a group as createGroup and join_group_by_code calls leave it, with n
\* members and no transaction
GroupOf(p, n) ==
    [EmptyDb EXCEPT !.groups = <<CreateGroupRow(1, p)>>,
                    !.group_members = [k \in {1} \X (1..n) |-> NewMember]]

\* the calls start on a group of 1 to NumUsers members with a penalty of
\* half a cent, new or with one failure of its creator logged
ConcInit ==
    /\ \E p \in PenaltyInputs \ {0}, n \in 1..NumUsers :
         \/ db = GroupOf(p, n)
         \/ db = LogFailure(GroupOf(p, n), 1, 1).db
    /\ now = 0
    /\ ret = NoCall
    /\ rt = NoProbe
    /\ sess = [s \in Sessions |-> Idle]
    /\ hist = <<[op |-> "start", db |-> db]>>
    /\ goals = NoGoals
    /\ tz = FixedZone

\* v_user_id := auth.uid(); SELECT default_penalty_amount INTO v_penalty
BeginLogFailure(s, u, g) ==
    /\ ~InFlight(s)
    /\ now < Cardinality(Sessions)
    /\ g \in DOMAIN db.groups
    /\ now' = now + 1
    /\ sess' = [sess EXCEPT ![s] =
                  [Started EXCEPT !.pc = "insert_loop", !.op = "log_failure",
                                  !.user = u, !.group_id = g, !.at = now + 1,
                                  !.v_penalty = ToDecimal2(db.groups[g].default_penalty_amount)]]
    /\ UNCHANGED <<db, ret, rt, hist, goals, tz>>

\* FOR v_member IN SELECT ... LOOP INSERT INTO transactions ... END LOOP
InsertLoop(s) ==
    LET c == sess[s]
        recips == OtherMembers(ViewMembers(s), c.group_id, c.user)
    IN /\ c.pc = "insert_loop"
       /\ Len(db.transactions) + Len(recips) <= MaxTx
       /\ sess' = [sess EXCEPT ![s] =
                     [c EXCEPT !.pc = "update_failure_count",
                               !.ins = NewTransactions(c.group_id, c.user, recips, c.v_penalty),
                               !.v_tx_count = Len(recips),
                               !.v_total_debt = LoopTotalDebt(Len(recips), c.v_penalty)]]
       /\ UNCHANGED <<db, now, ret, rt, hist, goals, tz>>

UpdateFailureCountStep(s) ==
    LET c == sess[s]
        T == NeedsMember(s)
    IN /\ c.pc = "update_failure_count"
       /\ \A k \in T : ~MemberRowLocked(s, k)
       /\ sess' = [sess EXCEPT ![s] =
                     [c EXCEPT !.pc = "update_actor_balance",
                               !.gmw = WriteMembers(s,
                                   UpdateFailureCount(ViewMembers(s), c.group_id, c.user), T)]]
       /\ UNCHANGED <<db, now, ret, rt, hist, goals, tz>>

UpdateActorBalanceStep(s) ==
    LET c == sess[s]
        T == NeedsMember(s)
        others == {k \in DOMAIN db.group_members : k[1] = c.group_id /\ k[2] # c.user}
    IN /\ c.pc = "update_actor_balance"
       /\ \A k \in T : ~MemberRowLocked(s, k)
       /\ \E order \in Orders(others) :
            sess' = [sess EXCEPT ![s] =
                       [c EXCEPT !.pc = IF others = {} THEN "return"
                                        ELSE "update_others_balance",
                                 !.todo = order,
                                 !.gmw = WriteMembers(s,
                                     UpdateActorBalance(ViewMembers(s), c.group_id, c.user,
                                                        c.v_total_debt), T)]]
       /\ UNCHANGED <<db, now, ret, rt, hist, goals, tz>>

\* one row of UPDATE group_members ... WHERE group_id = p_group_id
\* AND user_id != v_user_id
UpdateOthersBalanceStep(s) ==
    LET c == sess[s]
        T == NeedsMember(s)
    IN /\ c.pc = "update_others_balance"
       /\ \A k \in T : ~MemberRowLocked(s, k)
       /\ sess' = [sess EXCEPT ![s] =
                     [c EXCEPT !.pc = IF Len(c.todo) = 1 THEN "return"
                                      ELSE "update_others_balance",
                               !.todo = Tail(c.todo),
                               !.gmw = WriteMembers(s,
                                   UpdateOthersBalance(ViewMembers(s), c.group_id, c.user,
                                                       c.v_penalty), T)]]
       /\ UNCHANGED <<db, now, ret, rt, hist, goals, tz>>

\* SELECT * INTO v_tx ...; IF v_tx.status = 'paid' THEN RETURN
BeginSettleDebt(s, t) ==
    LET v_tx == SelectTx(db.transactions, t)
    IN /\ ~InFlight(s)
       /\ now < Cardinality(Sessions)
       /\ t \in DOMAIN db.transactions
       /\ now' = now + 1
       /\ sess' = [sess EXCEPT ![s] =
                     [Started EXCEPT !.pc = IF AlreadyPaid(v_tx) THEN "return" ELSE "mark_paid",
                                     !.op = "settle_debt", !.tx = t, !.at = now + 1,
                                     !.v_tx = v_tx]]
       /\ UNCHANGED <<db, ret, rt, hist, goals, tz>>

MarkPaidStep(s) ==
    LET c == sess[s]
        T == NeedsTx(s)
    IN /\ c.pc = "mark_paid"
       /\ \A t \in T : ~TxRowLocked(s, t)
       /\ sess' = [sess EXCEPT ![s] =
                     [c EXCEPT !.pc = "credit_from",
                               !.applied = TRUE,
                               !.txw = [t \in T |-> MarkPaid(ViewTransactions(s), t, c.at)[t]]]]
       /\ UNCHANGED <<db, now, ret, rt, hist, goals, tz>>

CreditFromStep(s) ==
    LET c == sess[s]
        T == NeedsMember(s)
    IN /\ c.pc = "credit_from"
       /\ \A k \in T : ~MemberRowLocked(s, k)
       /\ sess' = [sess EXCEPT ![s] =
                     [c EXCEPT !.pc = "debit_to",
                               !.gmw = WriteMembers(s, CreditFrom(ViewMembers(s), c.v_tx), T)]]
       /\ UNCHANGED <<db, now, ret, rt, hist, goals, tz>>

DebitToStep(s) ==
    LET c == sess[s]
        T == NeedsMember(s)
    IN /\ c.pc = "debit_to"
       /\ \A k \in T : ~MemberRowLocked(s, k)
       /\ sess' = [sess EXCEPT ![s] =
                     [c EXCEPT !.pc = "return",
                               !.gmw = WriteMembers(s, DebitTo(ViewMembers(s), c.v_tx), T)]]
       /\ UNCHANGED <<db, now, ret, rt, hist, goals, tz>>

\* RETURN json_build_object(...): the call ends and its transaction commits
Commit(s) ==
    LET c == sess[s]
    IN /\ c.pc = "return"
       /\ db' = AfterCommit(s)
       /\ hist' = Append(hist, HistEntry(s))
       /\ ret' = IF c.op = "log_failure"
                 THEN [op |-> "log_failure", user |-> c.user, group_id |-> c.group_id,
                       status |-> "returned", success |-> TRUE,
                       transactions_created |-> c.v_tx_count,
                       total_debt |-> c.v_total_debt]
                 ELSE IF c.applied
                 THEN [op |-> "settle_debt", tx |-> c.tx, status |-> "returned",
                       success |-> TRUE]
                 ELSE [op |-> "settle_debt", tx |-> c.tx, status |-> "returned",
                       success |-> FALSE, error |-> "Already paid"]
       /\ sess' = [sess EXCEPT ![s] = Idle]
       /\ UNCHANGED <<now, rt, goals, tz>>

\* the call fails at its next statement (an error, a cancelled request, a lost
\* connection): its transaction is rolled back
Fail(s) ==
    /\ InFlight(s)
    /\ ~Deadlocked(s)
    /\ db' = AfterRollback(s)
    /\ ret' = [op |-> sess[s].op, status |-> "exception", error |-> "failed",
               pc |-> sess[s].pc]
    /\ sess' = [sess EXCEPT ![s] = Idle]
    /\ UNCHANGED <<now, rt, hist, goals, tz>>

\* the deadlock detector aborts a session of a cycle
DeadlockAbort(s) ==
    /\ InFlight(s)
    /\ Deadlocked(s)
    /\ db' = AfterRollback(s)
    /\ ret' = [op |-> sess[s].op, status |-> "exception", error |-> "deadlock detected",
               pc |-> sess[s].pc]
    /\ sess' = [sess EXCEPT ![s] = Idle]
    /\ UNCHANGED <<now, rt, hist, goals, tz>>

ConcNext ==
    \/ \E s \in Sessions, u \in Users, g \in GroupIds : BeginLogFailure(s, u, g)
    \/ \E s \in Sessions : InsertLoop(s)
    \/ \E s \in Sessions : UpdateFailureCountStep(s)
    \/ \E s \in Sessions : UpdateActorBalanceStep(s)
    \/ \E s \in Sessions : UpdateOthersBalanceStep(s)
    \/ \E s \in Sessions, t \in TxIds : BeginSettleDebt(s, t)
    \/ \E s \in Sessions : MarkPaidStep(s)
    \/ \E s \in Sessions : CreditFromStep(s)
    \/ \E s \in Sessions : DebitToStep(s)
    \/ \E s \in Sessions : Commit(s)
    \/ \E s \in Sessions : Fail(s)
    \/ \E s \in Sessions : DeadlockAbort(s)

ConcSpec == ConcInit /\ [][ConcNext]_vars

\* ================================================== properties, ConcSpec
\* the committed calls, in commit order (hist[1] is the state they started on)
Committed == 2..Len(hist)

RECURSIVE SumOver(_, _, _)
\* the sum of f(hist[i], k) over the calls i of I
SumOver(f(_, _), I, k) ==
    IF I = {} THEN 0
    ELSE LET i == CHOOSE x \in I : TRUE
         IN f(hist[i], k) + SumOver(f, I \ {i}, k)

\* what the statements of call e, all of them, add to the balance of row k
BalanceWritten(e, k) ==
    IF e.op = "log_failure"
    THEN IF k = <<e.group_id, e.user>> THEN 0 - e.v_total_debt
         ELSE IF k[1] = e.group_id THEN e.v_penalty ELSE 0
    ELSE IF e.applied /\ e.v_tx # NULL
    THEN (IF k = <<e.v_tx.group_id, e.v_tx.from_user_id>> THEN e.v_tx.amount ELSE 0)
         - (IF k = <<e.v_tx.group_id, e.v_tx.to_user_id>> THEN e.v_tx.amount ELSE 0)
    ELSE 0

FailureWritten(e, k) ==
    IF e.op = "log_failure" /\ k = <<e.group_id, e.user>> THEN 1 ELSE 0

RowsWritten(e, k) == IF e.op = "log_failure" THEN e.v_tx_count ELSE 0

\* C3: whatever the interleaving and wherever calls fail, the committed
\* tables (what any other caller reads) hold all the writes of every call
\* that committed and no write of a call that failed or is still running:
\* balances, failure counts, transaction rows, status and settled_at.
AllOrNothing ==
    LET d0 == hist[1].db
    IN /\ DOMAIN db.group_members = DOMAIN d0.group_members
       /\ \A k \in DOMAIN db.group_members :
            /\ db.group_members[k].current_balance =
                 d0.group_members[k].current_balance + SumOver(BalanceWritten, Committed, k)
            /\ db.group_members[k].failure_count =
                 d0.group_members[k].failure_count + SumOver(FailureWritten, Committed, k)
       /\ Len(db.transactions) = Len(d0.transactions) + SumOver(RowsWritten, Committed, 0)
       /\ \A t \in DOMAIN db.transactions :
            LET settled == {i \in Committed : /\ hist[i].op = "settle_debt"
                                              /\ hist[i].tx = t /\ hist[i].applied}
            IN IF t \in DOMAIN d0.transactions /\ settled = {}
               THEN db.transactions[t] = d0.transactions[t]
               ELSE IF settled = {}
               THEN db.transactions[t].status = "pending" /\ db.transactions[t].settled_at = 0
               ELSE /\ db.transactions[t].status = "paid"
                    /\ \E i \in settled : db.transactions[t].settled_at = hist[i].at

\* a log_failure call failed between its balance updates, after it had
\* inserted transactions and debited its caller, while another call committed
AllOrNothingWitness ==
    /\ ret.op = "log_failure" /\ ret.status = "exception"
    /\ ret.pc = "update_others_balance"
    /\ Len(hist) = 2
    /\ \A s \in Sessions : ~InFlight(s)

RECURSIVE SerialReplay(_)
\* the tables after the calls of h run one after the other, each alone
SerialReplay(h) ==
    IF Len(h) = 1 THEN h[1].db
    ELSE LET d == SerialReplay(SubSeq(h, 1, Len(h) - 1))
             e == h[Len(h)]
         IN IF e.op = "log_failure"
            THEN LogFailure(d, e.user, e.group_id).db
            ELSE SettleDebt(d, e.tx, e.at).db

SettledExactlyOnce ==
    \A t \in DOMAIN db.transactions :
        Cardinality({i \in Committed : /\ hist[i].op = "settle_debt"
                                       /\ hist[i].tx = t /\ hist[i].applied}) <= 1

\* ------------------------------------------------ settle_debt, client path
\* services/supabase settleDebt: if (error) throw error; return data
settleDebt(r) ==
    IF r.status = "exception"
    THEN [thrown |-> TRUE, message |-> r.error]
    ELSE [thrown |-> FALSE, data |-> r]

\* useTransactions handleSettleDebt: returns the result, rethrows what is thrown
useTransactions_handleSettleDebt(r) == settleDebt(r)

\* GroupDetailScreen handleSettleDebt: the alert it shows
GroupDetailScreen_handleSettleDebt(r) ==
    LET o == useTransactions_handleSettleDebt(r)
    IN IF o.thrown
       THEN [title |-> "Error", message |-> o.message]
       ELSE [title |-> "Settled!", message |-> "The debt has been marked as paid."]

\* ------------------------------------------------- properties, error paths
\* C11 (as claimed): a log_failure call, through either function of that
\* name, with a group id that matches no group raises a not-found error and
\* changes no state.
UnknownGroupRejected ==
    [][\A u \in Users, g \in GroupIds :
          (log_failure(u, g) \/ log_failure2(u, g)) /\ g \notin DOMAIN db.groups
            => /\ ret'.status = "exception" /\ ret'.error = "Group not found"
               /\ db' = db]_vars

\* C12 (as claimed): a settle_debt call with a transaction id that matches
\* no transaction yields a not-found error, not success, and changes no state.
UnknownTransactionRejected ==
    [][\A t \in TxIds :
          settle_debt(t) /\ t \notin DOMAIN db.transactions
            => /\ \/ ret'.status = "exception"
                  \/ ret'.status = "returned" /\ ~ret'.success
               /\ db' = db]_vars

\* C13 (as claimed): settle_debt on a transaction that is already paid
\* reaches the caller as an error at every level of the client path: the
\* settleDebt wrapper, the useTransactions hook and the screen.
AlreadyPaidSurfacesError ==
    [][\A t \in TxIds :
          /\ settle_debt(t)
          /\ t \in DOMAIN db.transactions
          /\ db.transactions[t].status = "paid"
          => /\ settleDebt(ret').thrown
             /\ useTransactions_handleSettleDebt(ret').thrown
             /\ GroupDetailScreen_handleSettleDebt(ret').title = "Error"]_vars

\* ------------------------------------------- properties, order of failures
\* the membership rows after member u, then member v, log a failure in g
AfterBoth(d, g, u, v) == LogFailure(LogFailure(d, u, g).db, v, g).db.group_members

\* C14: from every state, two log_failure calls by different members of a
\* group leave every member the same current_balance and failure_count in
\* either order.
OrderIndependence ==
    \A g \in DOMAIN db.groups :
        \A u, v \in MemberUsers(db.group_members, g) :
            u # v => AfterBoth(db, g, u, v) = AfterBoth(db, g, v, u)

\* a failure was just logged in a group of three with unequal balances and
\* a penalty that log_failure rounds
OrderIndependenceWitness ==
    /\ ret.op = "log_failure" /\ ret.status = "returned"
    /\ 1 \in DOMAIN db.groups
    /\ db.groups[1].default_penalty_amount = 5
    /\ Cardinality(MemberUsers(db.group_members, 1)) = 3
    /\ \E u, v \in MemberUsers(db.group_members, 1) :
          /\ db.group_members[<<1, u>>].current_balance < 0
          /\ db.group_members[<<1, v>>].current_balance > 0
          /\ AfterBoth(db, 1, u, v)[<<1, u>>].failure_count
               = db.group_members[<<1, u>>].failure_count + 1

\* ------------------------------------------ properties, every client call
\* C15 (as claimed): a leaveGroup call, of either useGroups file, by a
\* member whose current_balance is not 0 fails with an error and leaves the
\* membership and its balance as they were; a membership is removed only at
\* balance 0.
LeaveOnlyWhenSettled ==
    [][\A u \in Users, g \in GroupIds :
          /\ leaveGroup(u, g) \/ leaveGroupEarlier(u, g)
          /\ <<g, u>> \in DOMAIN db.group_members
          /\ db.group_members[<<g, u>>].current_balance # 0
          => /\ ret'.status = "exception"
             /\ db'.group_members = db.group_members]_vars

\* C16 (as claimed): the current_balance of a membership that stays changes
\* only in a step of log_failure or settle_debt.
BalanceChangesOnlyInEngines ==
    [][\A k \in DOMAIN db.group_members \cap DOMAIN db'.group_members :
          db'.group_members[k].current_balance # db.group_members[k].current_balance
            => ret'.op \in {"log_failure", "settle_debt"}]_vars

\* ---------------------------------------------------------- useGoals hook
\* Time is counted in hours since an instant 0 (UTC). A time zone is one
\* change of the UTC offset: `before` hours until instant `at`, `after`
\* hours from then on.
\* offset one hour ahead until `at`, then none: clocks go back one hour
FallBack(x) == [at |-> x, before |-> 1, after |-> 0]
\* no offset until `at`, then one hour ahead: clocks go forward one hour
SpringForward(x) == [at |-> x, before |-> 0, after |-> 1]

\* the clocks change, if they do, sixty hours after instant 0
Zones == {FixedZone, FallBack(60), SpringForward(60)}

UtcOffset(z, t) == IF t < z.at THEN z.before ELSE z.after

\* the wall-clock reading of instant t: Date getters work on local time
LocalTime(z, t) == t + UtcOffset(z, t)

\* the instant of wall-clock reading w: Date setters convert back; a
\* reading that occurs twice means the earlier instant, one that is skipped
\* is read with the offset before the change
FromLocalTime(z, w) ==
    LET c == {u \in {w - z.before, w - z.after} : LocalTime(z, u) = w}
    IN IF c # {}
       THEN CHOOSE u \in c : \A v \in c : u <= v
       ELSE w - z.before

\* d.setDate(d.getDate() + n): the same wall-clock time n calendar days on
AddDays(z, t, n) == FromLocalTime(z, LocalTime(z, t) + n * HoursPerDay)

\* Math.ceil(h / (1000 * 60 * 60 * 24)), h in hours
CeilDays(h) == 0 - ((0 - h) \div HoursPerDay)

\* mutant: the completions come oldest first
RECURSIVE OrderByCompletedAtAsc(_)
OrderByCompletedAtAsc(rows) ==
    IF DOMAIN rows = {} THEN <<>>
    ELSE LET i == CHOOSE i \in DOMAIN rows :
                    \A j \in DOMAIN rows :
                        \/ rows[i].completed_at < rows[j].completed_at
                        \/ rows[j].completed_at = rows[i].completed_at /\ i <= j
         IN <<rows[i]>> \o OrderByCompletedAtAsc([j \in DOMAIN rows \ {i} |-> rows[j]])

\* .order('completed_at', { ascending: false }) over the rows of the table,
\* which the model keeps as a function from id to row
RECURSIVE OrderByCompletedAtDesc(_)
OrderByCompletedAtDesc(rows) ==
    IF DOMAIN rows = {} THEN <<>>
    ELSE LET i == CHOOSE i \in DOMAIN rows :
                    \A j \in DOMAIN rows :
                        \/ rows[j].completed_at < rows[i].completed_at
                        \/ rows[j].completed_at = rows[i].completed_at /\ i <= j
         IN <<rows[i]>> \o OrderByCompletedAtDesc([j \in DOMAIN rows \ {i} |-> rows[j]])

\* fetchGoals: the goals, each with the completions of that goal out of the
\* completions of all goals, latest first
FetchGoals(d) ==
    LET completionsData == OrderByCompletedAtDesc(d.goal_completions)
    IN [g \in DOMAIN d.goals |->
          [id |-> g, frequency_days |-> d.goals[g].frequency_days,
           completions |-> SelectSeq(completionsData, LAMBDA c : c.goal_id = g)]]

\* getGoalStatus(goal) of the hook of user u, on a device in zone z, at time t
GetGoalStatus(goal, u, z, t) ==
    LET userCompletions == SelectSeq(goal.completions, LAMBDA c : c.user_id = u)
        lastCompletion == IF Len(userCompletions) > 0 THEN userCompletions[1] ELSE NULL
        nextDeadline == IF lastCompletion # NULL
                        THEN AddDays(z, lastCompletion.completed_at, goal.frequency_days)
                        ELSE AddDays(z, t, goal.frequency_days)
    IN [op |-> "getGoalStatus", goal_id |-> goal.id, user_id |-> u,
        last_completion |-> IF lastCompletion # NULL
                            THEN lastCompletion.completed_at ELSE NULL,
        next_deadline |-> nextDeadline,
        is_overdue |-> nextDeadline < t,
        days_remaining |-> CeilDays(nextDeadline - t),
        total_completions |-> Len(userCompletions)]

\* insert into goal_completions { goal_id, user_id }: completed_at is NOW()
InsertCompletion(rows, u, g, t) ==
    LET id == CHOOSE id \in CompletionIds \ DOMAIN rows :
                  \A x \in CompletionIds \ DOMAIN rows : id <= x
    IN (id :> [id |-> id, goal_id |-> g, user_id |-> u, completed_at |-> t]) @@ rows

\* delete from goal_completions where id = completionId and user_id = user.id
DeleteCompletionRows(rows, u, id) ==
    [i \in {i \in DOMAIN rows : ~(i = id /\ rows[i].user_id = u)} |-> rows[i]]

\* the user signed in on the device: user?.id
CurrentUser == 1

\* a group of all users with one goal; the hook has mounted and fetched
GoalInit ==
    /\ \E f \in FrequencyInputs :
         db = [GroupOf(DefaultPenalty, NumUsers) EXCEPT
                 !.goals = <<[group_id |-> 1, frequency_days |-> f, created_by |-> 1]>>]
    /\ now = 0
    /\ ret = NoCall
    /\ rt = NoProbe
    /\ sess = [s \in Sessions |-> Idle]
    /\ hist = <<>>
    /\ goals = FetchGoals(db)
    /\ tz \in Zones

\* logCompletion by user u; on the device of CurrentUser it ends in fetchGoals
logCompletion(u, g) ==
    /\ DOMAIN db.goal_completions # CompletionIds
    /\ db' = [db EXCEPT !.goal_completions = InsertCompletion(@, u, g, now)]
    /\ goals' = IF u = CurrentUser THEN FetchGoals(db') ELSE goals
    /\ ret' = [op |-> "logCompletion", status |-> "returned"]
    /\ UNCHANGED <<now, rt, sess, hist, tz>>

deleteCompletion(u, id) ==
    /\ db' = [db EXCEPT !.goal_completions = DeleteCompletionRows(@, u, id)]
    /\ goals' = IF u = CurrentUser THEN FetchGoals(db') ELSE goals
    /\ ret' = [op |-> "deleteCompletion", status |-> "returned"]
    /\ UNCHANGED <<now, rt, sess, hist, tz>>

\* refetch on the device
fetchGoals ==
    /\ goals' = FetchGoals(db)
    /\ ret' = [op |-> "fetchGoals", status |-> "returned"]
    /\ UNCHANGED <<db, now, rt, sess, hist, tz>>

getGoalStatus(g) ==
    /\ g \in DOMAIN goals
    /\ ret' = GetGoalStatus(goals[g], CurrentUser, tz, now)
    /\ UNCHANGED <<db, now, rt, sess, hist, goals, tz>>

Tick(h) ==
    /\ now + h <= MaxHours
    /\ now' = now + h
    /\ UNCHANGED <<db, ret, rt, sess, hist, goals, tz>>

GoalNext ==
    \/ \E u \in GoalUsers, g \in DOMAIN db.goals : logCompletion(u, g)
    \/ \E u \in GoalUsers, id \in CompletionIds : deleteCompletion(u, id)
    \/ fetchGoals
    \/ \E g \in DOMAIN db.goals : getGoalStatus(g)
    \/ \E h \in TickHours : Tick(h)

GoalSpec == GoalInit /\ [][GoalNext]_vars

\* ------------------------------------------------ properties, GoalSpec
\* the completed_at of the current user's completions among those loaded
OwnTimes(goal) ==
    {goal.completions[i].completed_at :
        i \in {i \in DOMAIN goal.completions :
                  goal.completions[i].user_id = CurrentUser}}

OwnCount(goal) ==
    Cardinality({i \in DOMAIN goal.completions :
                    goal.completions[i].user_id = CurrentUser})

Latest(times) == CHOOSE t \in times : \A x \in times : x <= t

\* C17: whatever completions fetchGoals loaded, getGoalStatus reports the
\* number of the current user's completions and the latest of their
\* completed_at, null if there is none; the completions of other users do
\* not enter the result.
LatestOwnCompletion ==
    [][\A g \in DOMAIN goals :
          getGoalStatus(g)
            => /\ ret'.total_completions = OwnCount(goals[g])
               /\ IF OwnTimes(goals[g]) = {}
                  THEN ret'.last_completion = NULL
                  ELSE ret'.last_completion = Latest(OwnTimes(goals[g]))]_vars

\* the status was computed from two completions of the current user at
\* different times and a later completion of another user
LatestOwnCompletionWitness ==
    /\ ret.op = "getGoalStatus"
    /\ ret.total_completions = 2
    /\ Cardinality(OwnTimes(goals[1])) = 2
    /\ ret.last_completion = Latest(OwnTimes(goals[1]))
    /\ \E i \in DOMAIN goals[1].completions :
          /\ goals[1].completions[i].user_id # CurrentUser
          /\ goals[1].completions[i].completed_at > ret.last_completion

\* C18 (as claimed): with the latest completion at T, getGoalStatus at time
\* now reports next_deadline = T + frequency_days days, is_overdue =
\* (next_deadline < now) and days_remaining = ceil((next_deadline - now) in
\* days); with frequency_days = 3 that is false and 1 two days after T, true
\* and -1 four days after T.
DeadlineAfterLatestCompletion ==
    [][\A g \in DOMAIN goals :
          getGoalStatus(g) /\ OwnTimes(goals[g]) # {}
            => LET T == Latest(OwnTimes(goals[g]))
                   f == goals[g].frequency_days
               IN /\ ret'.next_deadline = T + f * HoursPerDay
                  /\ ret'.is_overdue = (ret'.next_deadline < now)
                  /\ ret'.days_remaining = CeilDays(ret'.next_deadline - now)
                  /\ f = 3 /\ now = T + 2 * HoursPerDay
                       => ~ret'.is_overdue /\ ret'.days_remaining = 1
                  /\ f = 3 /\ now = T + 4 * HoursPerDay
                       => ret'.is_overdue /\ ret'.days_remaining = 0 - 1]_vars

\* C19 (as claimed): with no completion of the current user, getGoalStatus
\* reports, whenever it is evaluated, is_overdue = false and days_remaining
\* = frequency_days.
NeverOverdueBeforeFirstCompletion ==
    [][\A g \in DOMAIN goals :
          getGoalStatus(g) /\ OwnTimes(goals[g]) = {}
            => /\ ~ret'.is_overdue
               /\ ret'.days_remaining = goals[g].frequency_days]_vars

\* ---------------------------------------------------------- get_net_balance
RECURSIVE SumRows(_, _)
SumRows(gm, S) ==
    IF S = {} THEN 0
    ELSE LET k == CHOOSE k \in S : TRUE
         IN gm[k].current_balance + SumRows(gm, S \ {k})

\* sum(current_balance) over the rows S: NULL when there is no row
SqlSum(gm, S) ==
    IF S = {} THEN NULL ELSE [null |-> FALSE, value |-> SumRows(gm, S)]

\* coalesce(x, 0)
Coalesce0(x) == IF x.null THEN 0 ELSE x.value

\* mutant: the sum runs over the memberships of every user
GetNetBalanceOfAll(gm, u) == Coalesce0(SqlSum(gm, DOMAIN gm))

\* SELECT coalesce(sum(current_balance), 0) FROM group_members
\*   WHERE user_id = auth.uid()
GetNetBalance(gm, u) == Coalesce0(SqlSum(gm, {k \in DOMAIN gm : k[2] = u}))

\* services/supabase getNetBalance: if (error) throw error; return data || 0
getNetBalance(r) ==
    IF r.status = "exception"
    THEN [thrown |-> TRUE, message |-> r.error]
    ELSE [thrown |-> FALSE, value |-> IF r.data = 0 THEN 0 ELSE r.data]

\* memberships of the users in up to two groups, each with a balance that
\* failures logged in the group have left
NetInit ==
    /\ \E M \in SUBSET (NetGroupIds \X Users) :
         \E b \in [M -> NetBalanceInputs] :
            db = [EmptyDb EXCEPT
                    !.groups = [g \in NetGroupIds |-> CreateGroupRow(1, 0)],
                    !.group_members =
                        [k \in M |-> [NewMember EXCEPT !.current_balance = b[k]]]]
    /\ now = 0
    /\ ret = NoCall
    /\ rt = NoProbe
    /\ sess = [s \in Sessions |-> Idle]
    /\ hist = <<>>
    /\ goals = NoGoals
    /\ tz = FixedZone

get_net_balance(u) ==
    /\ ret' = [op |-> "get_net_balance", user |-> u, status |-> "returned",
               data |-> GetNetBalance(db.group_members, u)]
    /\ UNCHANGED <<db, now, rt, sess, hist, goals, tz>>

NetNext == \E u \in Users : get_net_balance(u)

NetSpec == NetInit /\ [][NetNext]_vars

\* ------------------------------------------------- properties, NetSpec
\* C20: get_net_balance returns the sum of current_balance over all the
\* caller's memberships in all groups (+5 and -3 give 2) and returns 0, with
\* no error, when the caller has no membership; the client wrapper hands on
\* the same number.
NetBalanceIsSumOfMemberships ==
    [][\A u \in Users :
          get_net_balance(u)
            => LET mine == {k \in DOMAIN db.group_members : k[2] = u}
               IN /\ ret'.status = "returned"
                  /\ ret'.data = SumBalances(db.group_members, mine)
                  /\ mine = {} => ret'.data = 0
                  /\ {db.group_members[k].current_balance : k \in mine} = {5000, 0 - 3000}
                       => ret'.data = 2000
                  /\ ~getNetBalance(ret').thrown
                  /\ getNetBalance(ret').value = ret'.data]_vars

\* one user got 2 from memberships of +5 and -3 while others hold balances
\* too; another call returned 0 to a user without membership
NetBalanceWitness ==
    /\ ret.op = "get_net_balance"
    /\ ret.data = 2000
    /\ <<1, ret.user>> \in DOMAIN db.group_members
    /\ <<2, ret.user>> \in DOMAIN db.group_members
    /\ db.group_members[<<1, ret.user>>].current_balance = 5000
    /\ db.group_members[<<2, ret.user>>].current_balance = 0 - 3000
    /\ \E k \in DOMAIN db.group_members : k[2] # ret.user
    /\ \E u \in Users : \A k \in DOMAIN db.group_members : k[2] # u

\* C21 (as claimed): no step removes or alters a row of goal_completions of
\* a goal that exists: the completions of the goal only grow.
CompletionsAppendOnly ==
    [][\A id \in DOMAIN db.goal_completions :
          db.goal_completions[id].goal_id \in DOMAIN db'.goals
            => /\ id \in DOMAIN db'.goal_completions
               /\ db'.goal_completions[id] = db.goal_completions[id]]_vars

\* ------------------------------------------------------------------------
\* join_group_by_code statement by statement, under JoinSpec. Here
\* db.group_members is the heap of the table, a sequence of rows, so that
\* only the index of UNIQUE(group_id, user_id) stands between two calls
\* and two rows of one key.
MemberRow(g, u) ==
    [group_id |-> g, user_id |-> u, current_balance |-> 0, failure_count |-> 0]

\* a group of n members, as createGroup and earlier joins leave it
HeapOf(n) ==
    [EmptyDb EXCEPT !.groups = <<CreateGroupRow(1, DefaultPenalty)>>,
                    !.group_members = [i \in 1..n |-> MemberRow(1, i)]]

RowsOf(rows, g, u) ==
    {i \in DOMAIN rows : rows[i].group_id = g /\ rows[i].user_id = u}

\* the table without its UNIQUE constraint
NoUniqueConstraint(rows, g, u) == FALSE

\* UNIQUE(group_id, user_id): a committed row already holds the key
UniqueViolation(rows, g, u) == RowsOf(rows, g, u) # {}

\* the key is in the index from an insert another transaction has not
\* committed yet: the insert waits for that transaction to end
UniqueWait(s, g, u) ==
    \E o \in Sessions \ {s} : RowsOf(sess[o].ins, g, u) # {}

JoinInit ==
    /\ \E n \in 1..NumUsers : db = HeapOf(n)
    /\ now = 0
    /\ ret = NoCall
    /\ rt = NoProbe
    /\ sess = [s \in Sessions |-> Idle]
    /\ hist = <<>>
    /\ goals = NoGoals
    /\ tz = FixedZone

\* v_user_id := auth.uid(); SELECT id INTO v_group_id; IF v_group_id IS NULL
FindGroup(s, u, code) ==
    /\ ~InFlight(s)
    /\ IF code \notin DOMAIN db.groups
       THEN /\ ret' = [op |-> "join_group_by_code", user |-> u,
                       status |-> "returned", success |-> FALSE,
                       error |-> "Invalid invite code"]
            /\ UNCHANGED sess
       ELSE /\ sess' = [sess EXCEPT ![s] =
                          [Idle EXCEPT !.pc = "check", !.op = "join_group_by_code",
                                       !.user = u, !.group_id = code]]
            /\ UNCHANGED ret
    /\ UNCHANGED <<db, now, rt, hist, goals, tz>>

\* SELECT exists(...) INTO v_already_member; IF v_already_member
CheckMembership(s) ==
    LET c == sess[s]
    IN /\ c.pc = "check"
       /\ IF RowsOf(db.group_members, c.group_id, c.user) # {}
          THEN /\ ret' = [op |-> "join_group_by_code", user |-> c.user,
                          status |-> "returned", success |-> FALSE,
                          error |-> "Already a member"]
               /\ sess' = [sess EXCEPT ![s] = Idle]
          ELSE /\ sess' = [sess EXCEPT ![s].pc = "insert"]
               /\ UNCHANGED ret
       /\ UNCHANGED <<db, now, rt, hist, goals, tz>>

\* INSERT INTO public.group_members (group_id, user_id)
InsertMember(s) ==
    LET c == sess[s]
    IN /\ c.pc = "insert"
       /\ ~UniqueWait(s, c.group_id, c.user)
       /\ IF UniqueViolation(db.group_members, c.group_id, c.user)
          THEN /\ ret' = [op |-> "join_group_by_code", user |-> c.user,
                          status |-> "exception", error |-> "unique_violation"]
               /\ sess' = [sess EXCEPT ![s] = Idle]
          ELSE /\ sess' = [sess EXCEPT ![s].pc = "return",
                                       ![s].ins = <<MemberRow(c.group_id, c.user)>>]
               /\ UNCHANGED ret
       /\ UNCHANGED <<db, now, rt, hist, goals, tz>>

\* RETURN json_build_object('success', true, ...) and the commit
ReturnJoined(s) ==
    LET c == sess[s]
    IN /\ c.pc = "return"
       /\ c.op = "join_group_by_code"
       /\ db' = [db EXCEPT !.group_members = @ \o c.ins]
       /\ ret' = [op |-> "join_group_by_code", user |-> c.user,
                  status |-> "returned", success |-> TRUE,
                  group_id |-> c.group_id]
       /\ sess' = [sess EXCEPT ![s] = Idle]
       /\ UNCHANGED <<now, rt, hist, goals, tz>>

JoinNext ==
    \/ \E s \in Sessions, u \in Users, code \in InviteCodes : FindGroup(s, u, code)
    \/ \E s \in Sessions : CheckMembership(s)
    \/ \E s \in Sessions : InsertMember(s)
    \/ \E s \in Sessions : ReturnJoined(s)

JoinSpec == JoinInit /\ [][JoinNext]_vars

\* C22: after every step no (group, user) has two rows of group_members; a
\* call that returns 'Already a member' leaves the table as it was; and a
\* call that ends, by its return or by the unique violation its insert
\* raises, leaves exactly one row of its user in its group.
OneMembershipPerUser ==
    [][/\ \A g \in GroupIds, u \in Users :
            Cardinality(RowsOf(db'.group_members, g, u)) <= 1
       /\ \A s \in Sessions :
            (sess[s].pc = "check" /\ sess'[s].pc = "idle")
               => /\ ret'.error = "Already a member"
                  /\ db'.group_members = db.group_members
       /\ \A s \in Sessions :
            (sess[s].pc \in {"check", "insert", "return"} /\ sess'[s].pc = "idle")
               => Cardinality(RowsOf(db'.group_members,
                                     sess[s].group_id, sess[s].user)) = 1]_vars

\* one of two overlapping joins of one user has committed its row and the
\* insert of the other has raised the unique violation
ConcurrentJoinWitness ==
    /\ ret.op = "join_group_by_code"
    /\ ret.status = "exception"
    /\ Cardinality(RowsOf(db.group_members, 1, ret.user)) = 1

\* ------------------------------------------------------------------------
\* SubCentSpec: the calls of Spec, and createGroup with a penalty of less
\* than half a cent (0.004), which the numeric column of groups stores as
\* passed.
SubCentInputs == {4}

SubCentNext ==
    \/ Next
    \/ \E u \in Users, p \in SubCentInputs : createGroup(u, p)

SubCentSpec == Init /\ [][SubCentNext]_vars

\* C23 (as claimed): every row of transactions has an amount above zero.
AmountsPositive ==
    \A i \in DOMAIN db.transactions : db.transactions[i].amount > 0

\* ------------------------------------------------------------------------
\* the balance as the pending transactions give it
RECURSIVE SumAmounts(_, _)
SumAmounts(txs, I) ==
    IF I = {} THEN 0
    ELSE LET i == CHOOSE x \in I : TRUE
         IN txs[i].amount + SumAmounts(txs, I \ {i})

PendingTo(txs, g, u) ==
    {i \in DOMAIN txs : /\ txs[i].group_id = g
                        /\ txs[i].to_user_id = u
                        /\ txs[i].status = "pending"}

PendingFrom(txs, g, u) ==
    {i \in DOMAIN txs : /\ txs[i].group_id = g
                        /\ txs[i].from_user_id = u
                        /\ txs[i].status = "pending"}

\* C24 (as claimed): the current_balance of every membership is the sum of
\* the pending transactions of its group to the member minus the sum of
\* those from the member.
BalanceIsPendingSum ==
    \A k \in DOMAIN db.group_members :
        db.group_members[k].current_balance =
            SumAmounts(db.transactions, PendingTo(db.transactions, k[1], k[2]))
          - SumAmounts(db.transactions, PendingFrom(db.transactions, k[1], k[2]))

\* ------------------------------------------------------------------------
\* C25 (as claimed): whenever a member of a group calls log_failure, with
\* two parameters or with three, the other function started from the same
\* state leaves the same tables (every member's current_balance and
\* failure_count, the same transactions) and returns the same
\* transactions_created and total_debt.
LogFailureFunctionsAgree ==
    [][(/\ ret'.op = "log_failure"
        /\ now' = now + 1
        /\ <<ret'.group_id, ret'.user>> \in DOMAIN db.group_members)
          => LET three == LogFailure(db, ret'.user, ret'.group_id)
                 two == LogFailure2(db, ret'.user, ret'.group_id)
             IN /\ three.db = two.db
                /\ three.ret.transactions_created = two.ret.transactions_created
                /\ three.ret.total_debt = two.ret.total_debt]_vars

\* ------------------------------------------------------------------------
\* ConcJoinSpec: the sessions of ConcSpec, and join_group_by_code calls that
\* commit between their statements.
JoinCommits(u, code) ==
    /\ LET r == JoinGroupByCode(db, u, code)
       IN db' = r.db /\ ret' = r.ret
    /\ UNCHANGED <<now, rt, sess, hist, goals, tz>>

ConcJoinNext ==
    \/ ConcNext
    \/ \E u \in Users, code \in InviteCodes : JoinCommits(u, code)

ConcJoinSpec == ConcInit /\ [][ConcJoinNext]_vars

\* the members a committing call has credited, and the parties its
\* transactions name
CreditedBy(s) ==
    {u \in Users \ {sess[s].user} :
        /\ <<sess[s].group_id, u>> \in DOMAIN db.group_members
        /\ db'.group_members[<<sess[s].group_id, u>>].current_balance
             # db.group_members[<<sess[s].group_id, u>>].current_balance}

RecipientsOf(s) == {sess[s].ins[i].to_user_id : i \in DOMAIN sess[s].ins}

\* C26 (as claimed): when a log_failure call of a member commits, whatever
\* joins were committed while it ran, the members whose balance it raised
\* are those it created a transaction to, each by the penalty, and its
\* caller's balance went down by the total it credited.
CreditedAreRecipients ==
    [][\A s \in Sessions :
         (/\ sess[s].op = "log_failure"
          /\ sess[s].pc = "return"
          /\ sess'[s].pc = "idle"
          /\ ret'.status = "returned"
          /\ ret'.op = "log_failure"
          /\ <<sess[s].group_id, sess[s].user>> \in DOMAIN db.group_members)
            => /\ CreditedBy(s) = RecipientsOf(s)
               /\ db.group_members[<<sess[s].group_id, sess[s].user>>].current_balance
                    - db'.group_members[<<sess[s].group_id, sess[s].user>>].current_balance
                  = Cardinality(CreditedBy(s)) * sess[s].v_penalty]_vars

\* ------------------------------------------------------------------------
\* C27 (as claimed): of log_failure calls that different members of a group
\* run at the same time none is aborted because of the other; no session
\* running log_failure is ever picked by the deadlock detector.
ConcurrentFailuresBothComplete ==
    [][\A s \in Sessions :
         (/\ sess[s].op = "log_failure"
          /\ InFlight(s)
          /\ sess'[s].pc = "idle"
          /\ \E o \in Sessions \ {s} :
                /\ sess[o].op = "log_failure"
                /\ sess[o].group_id = sess[s].group_id
                /\ sess[o].user # sess[s].user
                /\ {<<sess[s].group_id, sess[s].user>>, <<sess[o].group_id, sess[o].user>>}
                      \subseteq DOMAIN db.group_members)
            => ~Deadlocked(s)]_vars

\* ------------------------------------------------------------------------
\* LeaveSpec: the calls of Spec, and leaveGroup as the two requests it
\* sends, with the calls of other clients between them.
\* select('current_balance') ... .single(), and the two throws
leaveGroupSelect(s, u, g) ==
    /\ now < MaxTime
    /\ ~InFlight(s)
    /\ IF <<g, u>> \notin DOMAIN db.group_members
       THEN /\ ret' = [op |-> "leaveGroup", status |-> "exception", error |-> "no row"]
            /\ UNCHANGED sess
       ELSE IF HasUnsettledBalance(db.group_members[<<g, u>>])
       THEN /\ ret' = [op |-> "leaveGroup", status |-> "exception",
                       error |-> "unsettled balance"]
            /\ UNCHANGED sess
       ELSE /\ sess' = [sess EXCEPT ![s] =
                          [Idle EXCEPT !.pc = "delete", !.op = "leaveGroup",
                                       !.user = u, !.group_id = g]]
            /\ UNCHANGED ret
    /\ now' = now + 1
    /\ rt' = NoProbe
    /\ UNCHANGED <<db, hist, goals, tz>>

\* .delete().eq('group_id', groupId).eq('user_id', user.id)
leaveGroupDelete(s) ==
    /\ sess[s].pc = "delete"
    /\ db' = [db EXCEPT !.group_members = DeleteMember(@, sess[s].group_id, sess[s].user)]
    /\ ret' = [op |-> "leaveGroup", status |-> "returned"]
    /\ sess' = [sess EXCEPT ![s] = Idle]
    /\ rt' = NoProbe
    /\ UNCHANGED <<now, hist, goals, tz>>

LeaveNext ==
    \/ Next
    \/ \E s \in Sessions, u \in Users, g \in GroupIds : leaveGroupSelect(s, u, g)
    \/ \E s \in Sessions : leaveGroupDelete(s)

LeaveSpec == Init /\ [][LeaveNext]_vars

\* C28 (as claimed): the row a leaveGroup call deletes has current_balance 0
\* when it is deleted.
DeletesOnlySettledRows ==
    [][\A s \in Sessions :
         (/\ sess[s].pc = "delete"
          /\ sess'[s].pc = "idle"
          /\ <<sess[s].group_id, sess[s].user>> \in DOMAIN db.group_members)
            => db.group_members[<<sess[s].group_id, sess[s].user>>].current_balance = 0]_vars

\* ------------------------------------------------------------------------
\* C29 (as claimed): both parties of every pending transaction hold a
\* membership in the transaction's group.
PendingPartiesAreMembers ==
    \A i \in DOMAIN db.transactions :
        db.transactions[i].status = "pending"
          => /\ <<db.transactions[i].group_id, db.transactions[i].from_user_id>>
                   \in DOMAIN db.group_members
             /\ <<db.transactions[i].group_id, db.transactions[i].to_user_id>>
                   \in DOMAIN db.group_members

\* ------------------------------------------------------------------------
\* check_goal_status(p_goal_id, p_user_id), the database's own reckoning,
\* under GoalRpcSpec. The server's session runs in UTC: a day is 24 hours.
\* EXTRACT(DAY FROM v_deadline - NOW())::INTEGER, the interval in hours
ExtractDay(h) == IF h >= 0 THEN h \div HoursPerDay ELSE 0 - ((0 - h) \div HoursPerDay)

\* joined_at of the members of GoalInit's group
JoinedAt == 0

CheckGoalStatus(d, g, u, t) ==
    IF g \notin DOMAIN d.goals
    THEN [op |-> "check_goal_status", error |-> "Goal not found"]
    ELSE
      LET v_goal == d.goals[g]
          own == SelectSeq(OrderByCompletedAtDesc(d.goal_completions),
                           LAMBDA c : c.goal_id = g /\ c.user_id = u)
          v_last_completion == IF Len(own) > 0 THEN own[1].completed_at ELSE NULL
          v_deadline == IF Len(own) = 0
                        THEN JoinedAt + v_goal.frequency_days * HoursPerDay
                        ELSE own[1].completed_at + v_goal.frequency_days * HoursPerDay
      IN [op |-> "check_goal_status", goal_id |-> g, user_id |-> u,
          last_completion |-> v_last_completion,
          next_deadline |-> v_deadline,
          is_overdue |-> v_deadline < t,
          days_remaining |-> ExtractDay(v_deadline - t),
          total_completions |-> Len(own)]

check_goal_status(g, u) ==
    /\ ret' = CheckGoalStatus(db, g, u, now)
    /\ UNCHANGED <<db, now, rt, sess, hist, goals, tz>>

GoalRpcNext ==
    \/ GoalNext
    \/ \E g \in DOMAIN db.goals, u \in GoalUsers : check_goal_status(g, u)

GoalRpcSpec == GoalInit /\ [][GoalRpcNext]_vars

\* C30 (as claimed): when the hook holds what the tables hold and the
\* current user has a completion of the goal, getGoalStatus reports the
\* next_deadline, is_overdue, days_remaining and total_completions that
\* check_goal_status reports at that time.
ClientAndDatabaseStatusAgree ==
    [][\A g \in DOMAIN goals :
          (/\ getGoalStatus(g)
           /\ goals = FetchGoals(db)
           /\ OwnTimes(goals[g]) # {})
            => LET server == CheckGoalStatus(db, g, CurrentUser, now)
               IN /\ ret'.next_deadline = server.next_deadline
                  /\ ret'.is_overdue = server.is_overdue
                  /\ ret'.days_remaining = server.days_remaining
                  /\ ret'.total_completions = server.total_completions]_vars

====
